---- MODULE Spec2Model ----
(***************************************************************************)
(* A model of src/process_job_stats.py: the SLURM job-accounting enricher. *)
(*                                                                         *)
(* Strings are sequences of atoms.  An atom is one character ("0".."9",    *)
(* ":", "-", ",", "=", "|", " ", "\n", "T", "x") or one word made of       *)
(* letters, "_" and "/" only ("compute", "nodeA", "gres/gpu", "JobID"):    *)
(* a word holds none of the characters the program splits or searches on,  *)
(* so str.split, str.strip, "in" and int() act on a sequence of atoms as   *)
(* they act on the text it spells.                                         *)
(*                                                                         *)
(* A Python call that can raise returns [err, val]: err = "none" and the   *)
(* returned value, or the name of the exception raised.                    *)
(***************************************************************************)
EXTENDS Integers, Sequences, FiniteSets, TLC

VARIABLES
    node_partitions, \* NodePartitions.node_partitions: the dict node -> partition
    stdin,           \* the lines of sys.stdin, in order
    i,               \* how many lines of stdin main's loop has consumed
    out,             \* what has been written to the output, in order
    pc,              \* main: "running", "done" (stdin exhausted) or "raised"
    exc,             \* the exception that ended main, "none" before
    noheader,        \* args.noheader is truthy
    last,            \* the Job object built from the line consumed last
    call             \* a direct call of one of the module's functions

vars == <<node_partitions, stdin, i, out, pc, exc, noheader, last, call>>

(***************************************************************************)
(* Python's str and int on sequences of atoms.                             *)
(***************************************************************************)
Digits == {"0", "1", "2", "3", "4", "5", "6", "7", "8", "9"}

DigitVal(d) ==
    CASE d = "0" -> 0 [] d = "1" -> 1 [] d = "2" -> 2 [] d = "3" -> 3
      [] d = "4" -> 4 [] d = "5" -> 5 [] d = "6" -> 6 [] d = "7" -> 7
      [] d = "8" -> 8 [] d = "9" -> 9

Whitespace == {" ", "\n"}

Ok(v) == [err |-> "none", val |-> v]

Raise(e) == [err |-> e, val |-> 0]

SetMin(S) == CHOOSE x \in S : \A y \in S : x <= y

SetMax(S) == CHOOSE x \in S : \A y \in S : y <= x

\* sub in s
Contains(s, sub) ==
    \E k \in 0..(Len(s) - Len(sub)) : SubSeq(s, k + 1, k + Len(sub)) = sub

\* s.split(sep) for a one-character sep: always at least one piece
RECURSIVE Split(_, _)
Split(s, sep) ==
    LET at == {k \in 1..Len(s) : s[k] = sep}
    IN  IF at = {} THEN <<s>>
        ELSE LET k == SetMin(at)
             IN  <<SubSeq(s, 1, k - 1)>> \o Split(SubSeq(s, k + 1, Len(s)), sep)

\* s.strip()
Strip(s) ==
    LET keep == {k \in 1..Len(s) : s[k] \notin Whitespace}
    IN  IF keep = {} THEN <<>> ELSE SubSeq(s, SetMin(keep), SetMax(keep))

\* sep.join(parts)
RECURSIVE Join(_, _)
Join(parts, sep) ==
    IF parts = <<>> THEN <<>>
    ELSE IF Len(parts) = 1 THEN parts[1]
    ELSE parts[1] \o <<sep>> \o Join(Tail(parts), sep)

RECURSIVE DecVal(_)
DecVal(d) ==
    IF d = <<>> THEN 0
    ELSE 10 * DecVal(SubSeq(d, 1, Len(d) - 1)) + DigitVal(d[Len(d)])

\* int(s): surrounding whitespace stripped, an optional "+" or "-", then
\* digits only (the atoms hold no "_", the other thing int() accepts)
PyInt(s) ==
    LET t == Strip(s)
        signed == Len(t) > 0 /\ t[1] \in {"+", "-"}
        d == IF signed THEN Tail(t) ELSE t
    IN  IF Len(d) > 0 /\ \A k \in 1..Len(d) : d[k] \in Digits
        THEN Ok(IF t[1] = "-" THEN 0 - DecVal(d) ELSE DecVal(d))
        ELSE Raise("ValueError")

(***************************************************************************)
(* Job.parse_elapsed_to_seconds and Job.calculate_gpus_from_tres.          *)
(***************************************************************************)
parse_elapsed_to_seconds(elapsed) ==
    LET dash == Contains(elapsed, <<"-">>)
        p == Split(elapsed, "-")
        e_days == IF dash THEN PyInt(p[1]) ELSE Ok(0)
        rest == IF dash THEN p[2] ELSE elapsed
        f == Split(rest, ":")
    IN  IF e_days.err # "none" THEN Raise("ValueError")
        ELSE IF \E k \in 1..Len(f) : PyInt(f[k]).err # "none"
        THEN Raise("ValueError")
        ELSE IF Len(f) # 3 THEN Raise("ValueError")
        ELSE Ok(e_days.val * 86400 + PyInt(f[1]).val * 60 * 60
                + PyInt(f[2]).val * 60 + PyInt(f[3]).val)

\* the text "gres/gpu="
GPU_KEY == <<"gres/gpu", "=">>

calculate_gpus_from_tres(tres) ==
    IF ~Contains(tres, GPU_KEY) THEN Ok(0)
    ELSE LET parts == Split(tres, ",")
             hit == {k \in 1..Len(parts) : Contains(parts[k], GPU_KEY)}
         IN  IF hit = {} THEN Raise("ValueError")
             ELSE PyInt(Split(parts[SetMin(hit)], "=")[2])

(***************************************************************************)
(* Floats are kept exact, as fractions num/den.                            *)
(***************************************************************************)
Frac(n, d) == [num |-> n, den |-> d]

Zero == Frac(0, 1)

FracEq(a, b) == a.num * b.den = b.num * a.den

\* a + b = k, for an integer k
FracSumIs(a, b, k) == a.num * b.den + b.num * a.den = k * a.den * b.den

Abs(n) == IF n < 0 THEN 0 - n ELSE n

(***************************************************************************)
(* The lookup objects: NodePartitions, AccountStorages, AccountPIs.        *)
(***************************************************************************)
OPEN_USE_PARTITIONS ==
    << <<"compute">>, <<"compute_intel">>, <<"computelong">>,
       <<"computelong_intel">>, <<"gpu">>, <<"gpulong">>, <<"interactive">>,
       <<"interactivegpu">>, <<"memory">>, <<"memorylong">> >>

InList(x, list) == \E k \in 1..Len(list) : list[k] = x

\* {item.split(",")[0]: item.split(",")[1] for item in entries}: a later entry
\* of a node replaces an earlier one
RECURSIVE NodePartitionsInit(_)
NodePartitionsInit(entries) ==
    IF entries = <<>> THEN <<>>
    ELSE LET before == NodePartitionsInit(SubSeq(entries, 1, Len(entries) - 1))
             item == Split(entries[Len(entries)], ",")
             others == DOMAIN before \ {item[1]}
         IN  [n \in others \cup {item[1]} |->
                 IF n = item[1] THEN item[2] ELSE before[n]]

\* never raises: the KeyError of an unknown node is caught and "" returned
get_partition(np, node) ==
    IF node \in DOMAIN np THEN Ok(np[node]) ELSE Ok(<<>>)

\* the snapshots of the two per-account collaborators, fixed for the run
account_storage == (<<"kernlab">> :> 512)

account_pi == (<<"kernlab">> :> <<"kern">>)

get_storage(account) ==
    IF account \in DOMAIN account_storage THEN account_storage[account] ELSE 0

get_pi(account) ==
    IF account \in DOMAIN account_pi THEN account_pi[account] ELSE <<>>

(***************************************************************************)
(* class Job.                                                               *)
(***************************************************************************)
\* the dataclass's fields, which asdict() reads one by one
JobFields ==
    {"job_id", "job_name", "username", "account", "partition", "elapsed",
     "nodes", "cpus", "tres", "submit_time", "start_time", "end_time",
     "nodelist", "pi", "account_storage_gb", "category", "openuse_weight",
     "condo_weight", "gpus", "cpu_hours", "gpu_hours", "wait_time_hours",
     "run_time_hours", "date"}

\* the attributes __init__ has assigned when it returns at the elapsed == 0 test
EarlyFields ==
    {"job_id", "job_name", "username", "account", "partition", "elapsed"}

\* an object with no attribute assigned (the values stand for "not there")
NoAttrs ==
    [job_id |-> <<>>, job_name |-> <<>>, username |-> <<>>, account |-> <<>>,
     partition |-> <<>>, elapsed |-> <<>>, nodes |-> <<>>, cpus |-> 0,
     tres |-> <<>>, submit_time |-> <<>>, start_time |-> <<>>,
     end_time |-> <<>>, nodelist |-> <<>>, pi |-> <<>>,
     account_storage_gb |-> 0, category |-> "", openuse_weight |-> Zero,
     condo_weight |-> Zero, gpus |-> 0, cpu_hours |-> Zero,
     gpu_hours |-> Zero, wait_time_hours |-> Zero, run_time_hours |-> Zero,
     date |-> <<>>]

\* class JobCategory
JobCategory == [OPEN |-> "open_use", DONATED |-> "donated", CONDO |-> "condo"]

\* A variant with no label for the preempt partition.
categorize_job_without_donated(partition) ==
    IF InList(partition, OPEN_USE_PARTITIONS) THEN JobCategory.OPEN
    ELSE JobCategory.CONDO

categorize_job(partition) ==
    IF InList(partition, OPEN_USE_PARTITIONS) THEN JobCategory.OPEN
    ELSE IF partition = <<"preempt">> THEN JobCategory.DONATED
    ELSE JobCategory.CONDO

\* [n.strip() for n in nodelist.split(",") if n.strip()]
RECURSIVE StrippedNonEmpty(_)
StrippedNonEmpty(parts) ==
    IF parts = <<>> THEN <<>>
    ELSE (IF Strip(parts[1]) = <<>> THEN <<>> ELSE <<Strip(parts[1])>>)
         \o StrippedNonEmpty(Tail(parts))

\* A variant whose node count is the number of distinct nodes of the list.
calculate_weight_distinct_nodes(category, nodelist, np) ==
    IF category \notin {JobCategory.OPEN, JobCategory.CONDO}
    THEN Raise("ValueError")
    ELSE LET nodes == StrippedNonEmpty(Split(nodelist, ","))
             nl == Cardinality({nodes[k] : k \in 1..Len(nodes)})
             is_openuse(k) ==
                 InList(get_partition(np, nodes[k]).val, OPEN_USE_PARTITIONS)
             c == Cardinality({k \in 1..Len(nodes) :
                      IF category = JobCategory.OPEN THEN is_openuse(k)
                      ELSE ~is_openuse(k)})
         IN  IF nl <= 0 THEN Ok(Zero) ELSE Ok(Frac(c, nl))

\* Job.calculate_weight, nodelist being self.nodelist
calculate_weight(category, nodelist, np) ==
    IF category \notin {JobCategory.OPEN, JobCategory.CONDO}
    THEN Raise("ValueError")
    ELSE LET nodes == StrippedNonEmpty(Split(nodelist, ","))
             looked == [k \in 1..Len(nodes) |-> get_partition(np, nodes[k])]
             \* "except Exception: nl -= 1; continue"
             failed == {k \in 1..Len(nodes) : looked[k].err # "none"}
             nl == Len(nodes) - Cardinality(failed)
             is_openuse(k) == InList(looked[k].val, OPEN_USE_PARTITIONS)
             c == Cardinality({k \in (1..Len(nodes)) \ failed :
                      IF category = JobCategory.OPEN THEN is_openuse(k)
                      ELSE ~is_openuse(k)})
         IN  IF nl <= 0 THEN Ok(Zero) ELSE Ok(Frac(c, nl))

\* datetime.fromisoformat and the subtraction of two datetimes, as CPython
\* 3.11 has them.  A text is a sequence of one-character atoms; an atom of
\* several letters stands for two characters that are neither digits nor
\* signs.  The atoms hold no "W", so the ISO week dates are left out.
OneChar ==
    Digits \cup {":", "-", ",", "=", "|", " ", "\n", "T", "x", ".", "+", "Z"}

RECURSIVE Spell(_)
Spell(s) ==
    IF s = <<>> THEN <<>>
    ELSE (IF Head(s) \in OneChar THEN <<Head(s)>> ELSE <<"x", "x">>)
             \o Spell(Tail(s))

IsLeap(y) == (y % 4 = 0 /\ y % 100 # 0) \/ y % 400 = 0

DaysInMonth(y, m) ==
    IF m = 2 THEN (IF IsLeap(y) THEN 29 ELSE 28)
    ELSE IF m \in {4, 6, 9, 11} THEN 30 ELSE 31

\* days from 1970-01-01 to y-m-d
DaysFromCivil(y, m, d) ==
    LET yy == IF m <= 2 THEN y - 1 ELSE y
        era == yy \div 400
        yoe == yy - era * 400
        mp == (m + 9) % 12
        doy == (153 * mp + 2) \div 5 + d - 1
        doe == yoe * 365 + yoe \div 4 - yoe \div 100 + doy
    IN  era * 146097 + doe - 719468

\* the n digits of t from place p on as a number, -1 when they are not there
ParseDigits(t, p, n) ==
    IF p + n - 1 <= Len(t) /\ \A k \in p..(p + n - 1) : t[k] \in Digits
    THEN DecVal(SubSeq(t, p, p + n - 1))
    ELSE 0 - 1

\* what the time parser returns: rv is 0 when the text was read to its end,
\* 1 when something is left, negative for an error
TimeFailed == [rv |-> 0 - 3, v |-> <<0, 0, 0>>, us |-> 0]

\* the fraction of a second from place p on: at most 6 digits are read, the
\* digits after them are skipped
ParseFraction(t, more, p, v) ==
    LET to_parse == IF Len(t) - p + 1 >= 6 THEN 6 ELSE Len(t) - p + 1
        n == ParseDigits(t, p, to_parse)
        rest == SubSeq(t, p + to_parse, Len(t))
        left == more \/ \E k \in 1..Len(rest) : rest[k] \notin Digits
    IN  IF n < 0 THEN TimeFailed
        ELSE [rv |-> IF left THEN 1 ELSE 0, v |-> v,
              us |-> n * 10 ^ (6 - to_parse)]

\* component comp (0 hours, 1 minutes, 2 seconds) of HH[:MM[:SS]] at place p;
\* c is the character after its two digits, the sign of the offset or the end
\* of the text when t is over
RECURSIVE ParseComponent(_, _, _, _, _, _)
ParseComponent(t, more, comp, p, sep, v) ==
    LET n == ParseDigits(t, p, 2)
        q == p + 2
        c == IF q <= Len(t) THEN t[q] ELSE IF more THEN "+" ELSE ""
        has_separator == IF comp = 0 THEN c = ":" ELSE sep
        w == [v EXCEPT ![comp + 1] = n]
        then(at) == IF comp = 2 THEN ParseFraction(t, more, at, w)
                    ELSE ParseComponent(t, more, comp + 1, at, has_separator, w)
    IN  IF n < 0 THEN TimeFailed
        ELSE IF q >= Len(t)
        THEN [rv |-> IF c # "" THEN 1 ELSE 0, v |-> w, us |-> 0]
        ELSE IF has_separator /\ c = ":" THEN then(q + 1)
        ELSE IF c \in {".", ","} THEN ParseFraction(t, more, q + 1, w)
        ELSE IF ~has_separator THEN then(q)
        ELSE TimeFailed

\* t is the text up to the sign of the offset, or all of it (more is FALSE)
parse_hh_mm_ss_ff(t, more) ==
    CHOOSE r \in {ParseComponent(u, m, 0, 1, FALSE, <<0, 0, 0>>) :
                     u \in {t}, m \in {more}} : TRUE

NoTime == [ok |-> FALSE, v |-> <<0, 0, 0>>, us |-> 0, tzinfo |-> <<>>]

\* the time with its offset, z being the place of the sign in tstr (past its
\* end when there is none): an offset of 0 seconds is UTC.  tzinfo is <<>>
\* for a naive time, else the one offset as <<seconds, microseconds>>.
TimeWithOffset(tstr, z, time, tz) ==
    LET tzsign == IF tstr[z] = "-" THEN 0 - 1 ELSE 1
        tzoffset == tzsign * (tz.v[1] * 3600 + tz.v[2] * 60 + tz.v[3])
        parsed(tzinfo) ==
            [ok |-> TRUE, v |-> time.v, us |-> time.us, tzinfo |-> tzinfo]
    IN  IF time.rv < 0 THEN NoTime
        ELSE IF z > Len(tstr)
        THEN (IF time.rv = 1 THEN NoTime ELSE parsed(<<>>))
        ELSE IF tstr[z] = "Z"
        THEN (IF z < Len(tstr) THEN NoTime ELSE parsed(<< <<0, 0>> >>))
        ELSE IF tz.rv # 0 THEN NoTime
        ELSE IF tzoffset = 0 THEN parsed(<< <<0, 0>> >>)
        ELSE parsed(<< <<tzoffset, tzsign * tz.us>> >>)

\* the time after the date and its separator: the first "Z", "+" or "-"
\* starts the offset
parse_isoformat_time(tstr) ==
    LET signs == {k \in 1..Len(tstr) : tstr[k] \in {"Z", "+", "-"}}
    IN  CHOOSE r \in
            {TimeWithOffset(tstr, z, time, tz) :
                z \in {IF signs = {} THEN Len(tstr) + 1 ELSE SetMin(signs)},
                time \in {parse_hh_mm_ss_ff(
                              SubSeq(tstr, 1,
                                     (IF signs = {} THEN Len(tstr) + 1
                                      ELSE SetMin(signs)) - 1),
                              signs # {})},
                tz \in {IF signs = {} THEN TimeFailed
                        ELSE parse_hh_mm_ss_ff(
                                 SubSeq(tstr, SetMin(signs) + 1, Len(tstr)),
                                 FALSE)}} : TRUE

\* the datetime of the text d and its time: the value is the days since
\* 1970-01-01, the seconds and microseconds of the day, and the tzinfo
DateTimeOf(d, time) ==
    LET dashed == d[5] = "-"
        year == ParseDigits(d, 1, 4)
        month == ParseDigits(d, IF dashed THEN 6 ELSE 5, 2)
        day == ParseDigits(d, IF dashed THEN 9 ELSE 7, 2)
    IN  IF year < 0 \/ month < 0 \/ day < 0 THEN Raise("ValueError")
        ELSE IF dashed /\ d[8] # "-" THEN Raise("ValueError")
        ELSE IF ~time.ok THEN Raise("ValueError")
        \* the ranges the datetime and timezone constructors check
        ELSE IF \/ year < 1 \/ month \notin 1..12
                \/ day \notin 1..DaysInMonth(year, month)
                \/ time.v[1] > 23 \/ time.v[2] > 59 \/ time.v[3] > 59
        THEN Raise("ValueError")
        ELSE IF time.tzinfo # <<>> /\ Abs(time.tzinfo[1][1]) >= 86400
        THEN Raise("ValueError")
        ELSE Ok([days |-> DaysFromCivil(year, month, day),
                 seconds |-> time.v[1] * 3600 + time.v[2] * 60 + time.v[3],
                 microseconds |-> time.us,
                 tzinfo |-> time.tzinfo])

\* YYYY-MM-DD or YYYYMMDD, then nothing, or any one character and a time
ParseDateTime(d) ==
    LET separator_location == IF d[5] = "-" THEN 10 ELSE 8
    IN  IF Len(d) < 8 THEN Raise("ValueError")
        ELSE CHOOSE r \in
                 {DateTimeOf(d, time) :
                     time \in {IF Len(d) > separator_location
                               THEN parse_isoformat_time(
                                        SubSeq(d, separator_location + 2,
                                               Len(d)))
                               ELSE [NoTime EXCEPT !.ok = TRUE]}} : TRUE

\* datetime.fromisoformat(s)
fromisoformat(s) == CHOOSE r \in {ParseDateTime(d) : d \in {Spell(s)}} : TRUE

\* timedelta(days, seconds, microseconds), normalised as the constructor does
timedelta(days, seconds, microseconds) ==
    LET s == seconds + microseconds \div 1000000
    IN  [days |-> days + s \div 86400, seconds |-> s % 86400,
         microseconds |-> microseconds % 1000000]

\* abs((dt2 - dt1).total_seconds() / 60 / 60): the value is the timedelta
\* |dt2 - dt1| and the 3600 seconds it is divided by.  Subtracting a naive
\* datetime and one with an offset raises TypeError.
HoursBetween(dt1, dt2) ==
    LET aware == dt1.val.tzinfo # <<>>
        myoff == IF aware THEN dt2.val.tzinfo[1] ELSE <<0, 0>>
        otoff == IF aware THEN dt1.val.tzinfo[1] ELSE <<0, 0>>
        delta == timedelta(
            dt2.val.days - dt1.val.days,
            dt2.val.seconds - dt1.val.seconds + otoff[1] - myoff[1],
            dt2.val.microseconds - dt1.val.microseconds + otoff[2] - myoff[2])
    IN  IF dt1.err # "none" THEN Raise(dt1.err)
        ELSE IF dt2.err # "none" THEN Raise(dt2.err)
        ELSE IF (dt1.val.tzinfo = <<>>) # (dt2.val.tzinfo = <<>>)
        THEN Raise("TypeError")
        ELSE Ok([delta |-> IF delta.days < 0
                           THEN timedelta(0 - delta.days, 0 - delta.seconds,
                                          0 - delta.microseconds)
                           ELSE delta,
                 den |-> 3600])

calculate_wait_time_hours(iso1, iso2) ==
    CHOOSE r \in {HoursBetween(dt1, dt2) :
                     dt1 \in {fromisoformat(iso1)},
                     dt2 \in {fromisoformat(iso2)}} : TRUE

\* A variant that leaves the count out.
calculate_compute_hours_of_one(number, elapsed) ==
    LET elapsed_seconds == parse_elapsed_to_seconds(elapsed)
    IN  IF elapsed_seconds.err # "none" THEN Raise(elapsed_seconds.err)
        ELSE Ok(Frac(elapsed_seconds.val, 3600))

\* float(number) * elapsed_seconds / 60 / 60
calculate_compute_hours(number, elapsed) ==
    LET elapsed_seconds == parse_elapsed_to_seconds(elapsed)
    IN  IF elapsed_seconds.err # "none" THEN Raise(elapsed_seconds.err)
        ELSE Ok(Frac(number * elapsed_seconds.val, 3600))

calculate_run_time_hours(elapsed) ==
    LET elapsed_seconds == parse_elapsed_to_seconds(elapsed)
    IN  IF elapsed_seconds.err # "none" THEN Raise(elapsed_seconds.err)
        ELSE Ok(Frac(elapsed_seconds.val, 3600))

get_day_date_from_iso(iso) == Split(iso, "T")[1]

\* what Job(line, ...) leaves: the exception __init__ raised, or the object
\* with the attributes it had assigned when it returned
JobRaised(e) == [err |-> e, set |-> {}, a |-> NoAttrs]

\* __init__ from "self.job_id = p[0]" on, p being the list of the line's fields
JobFromFields(p, np) ==
    LET n == Len(p)
        seconds == parse_elapsed_to_seconds(p[6])
        cpus == PyInt(p[8])
        early == [NoAttrs EXCEPT !.job_id = p[1], !.job_name = p[2],
                     !.username = p[3], !.account = p[4], !.partition = p[5],
                     !.elapsed = p[6]]
        openuse_weight == calculate_weight(JobCategory.OPEN, p[13], np)
        condo_weight == calculate_weight(JobCategory.CONDO, p[13], np)
        gpus == calculate_gpus_from_tres(p[9])
        wait == calculate_wait_time_hours(p[10], p[11])
    IN  IF n < 6 THEN JobRaised("IndexError")
        ELSE IF seconds.err # "none" THEN JobRaised(seconds.err)
        ELSE IF seconds.val = 0
        THEN [err |-> "none", set |-> EarlyFields, a |-> early]
        ELSE IF n < 8 THEN JobRaised("IndexError")
        ELSE IF cpus.err # "none" THEN JobRaised(cpus.err)
        ELSE IF n < 13 THEN JobRaised("IndexError")
        ELSE IF openuse_weight.err # "none" THEN JobRaised(openuse_weight.err)
        ELSE IF condo_weight.err # "none" THEN JobRaised(condo_weight.err)
        ELSE IF gpus.err # "none" THEN JobRaised(gpus.err)
        ELSE IF wait.err # "none" THEN JobRaised(wait.err)
        ELSE [err |-> "none", set |-> JobFields,
              a |-> [early EXCEPT
                  !.nodes = p[7], !.cpus = cpus.val, !.tres = p[9],
                  !.submit_time = p[10], !.start_time = p[11],
                  !.end_time = p[12], !.nodelist = p[13],
                  !.pi = get_pi(p[4]),
                  !.account_storage_gb = get_storage(p[4]),
                  !.category = categorize_job(p[5]),
                  !.openuse_weight = openuse_weight.val,
                  !.condo_weight = condo_weight.val,
                  !.gpus = gpus.val,
                  !.wait_time_hours = wait.val,
                  !.run_time_hours = calculate_run_time_hours(p[6]).val,
                  !.cpu_hours = calculate_compute_hours(cpus.val, p[6]).val,
                  !.gpu_hours = calculate_compute_hours(gpus.val, p[6]).val,
                  !.date = get_day_date_from_iso(p[12])]]

\* Job.__init__ (the one-element set binds p to the list once built)
JobInit(slurm_job_line, np) ==
    IF Len(slurm_job_line) > 0 /\ slurm_job_line[1] = "JobID"
    THEN [err |-> "none", set |-> {}, a |-> NoAttrs]
    ELSE CHOOSE job \in
             {JobFromFields(p, np) :
                 p \in {StrippedNonEmpty(Split(slurm_job_line, "|"))}} : TRUE

\* A variant that reads a field never assigned as its default.
asdict_with_defaults(job) == Ok(job.a)

\* job.keys() and job.values() go through asdict(), which reads every field of
\* the dataclass and raises AttributeError at the first one never assigned
asdict(job) ==
    IF job.set = JobFields THEN Ok(job.a) ELSE Raise("AttributeError")

\* A variant for a class whose objects count as empty.
JobTruthy_as_empty(job) == FALSE

\* "if job:": the class defines neither __bool__ nor __len__
JobTruthy(job) == TRUE

(***************************************************************************)
(* main: the loop over sys.stdin.                                          *)
(***************************************************************************)
HeaderRow == [kind |-> "header", v |-> NoAttrs]

JobRow(job) == [kind |-> "job", v |-> job.a]

NoJob == [err |-> "none", set |-> {}, a |-> NoAttrs]

NoCall == [fn |-> "", arg |-> <<>>, ret |-> Raise("pending")]

\* one turn of "for i, line in enumerate(sys.stdin)"; an exception closes the
\* output and ends the program
ProcessLine ==
    /\ pc = "running"
    /\ i < Len(stdin)
    /\ \E job \in {JobInit(stdin[i + 1], node_partitions)} :
       LET header == ~noheader /\ i = 0
           dict == asdict(job)
           out1 == IF header THEN Append(out, HeaderRow) ELSE out
       IN  /\ last' = job
           /\ IF job.err # "none"
              THEN pc' = "raised" /\ exc' = job.err /\ out' = out
              ELSE IF header /\ dict.err # "none"
              THEN pc' = "raised" /\ exc' = dict.err /\ out' = out
              ELSE IF ~JobTruthy(job)
              THEN pc' = "running" /\ exc' = exc /\ out' = out1
              ELSE IF dict.err # "none"
              THEN pc' = "raised" /\ exc' = dict.err /\ out' = out1
              ELSE pc' = "running" /\ exc' = exc
                   /\ out' = Append(out1, JobRow(job))
    /\ i' = i + 1
    /\ UNCHANGED <<node_partitions, stdin, noheader, call>>

\* sys.stdin is exhausted: the loop and main end
Finish ==
    /\ pc = "running"
    /\ i = Len(stdin)
    /\ pc' = "done"
    /\ UNCHANGED <<node_partitions, stdin, i, out, exc, noheader, last, call>>

(***************************************************************************)
(* The inputs: node snapshots, accounting lines, batches.                  *)
(***************************************************************************)
MaxEntries == 2   \* entries of the sinfo snapshot

MaxNodes == 2     \* nodes in a job's node list

MaxLines == 3     \* lines of a batch

SeqsUpTo(S, n) == UNION {[1..k -> S] : k \in 0..n}

NodeNames == {<<"nodeA">>, <<"nodeB">>, <<"nodeZ">>}

\* nodeZ is in no snapshot
EntryTexts ==
    {nd \o <<",">> \o q : nd \in {<<"nodeA">>, <<"nodeB">>},
                          q \in {<<"compute">>, <<"kern">>, <<"preempt">>}}

Snapshots == SeqsUpTo(EntryTexts, MaxEntries)

\* "," alone is a node list that holds no node
NodeListTexts ==
    {Join(ns, ",") : ns \in SeqsUpTo(NodeNames, MaxNodes) \ {<<>>}}
        \cup {<<",">>}

Partitions == {<<"compute">>, <<"kern">>, <<"preempt">>}

SubmitText ==
    <<"2", "0", "2", "5", "-", "0", "2", "-", "0", "3", "T",
      "2", "3", ":", "3", "8", ":", "1", "4">>

StartText ==
    <<"2", "0", "2", "5", "-", "0", "2", "-", "0", "3", "T",
      "2", "3", ":", "5", "3", ":", "2", "1">>

EndText ==
    <<"2", "0", "2", "5", "-", "0", "2", "-", "0", "4", "T",
      "0", "0", ":", "0", "0", ":", "4", "4">>

ElapsedText == <<"0", ":", "7", ":", "2", "3">>

ZeroElapsedText == <<"0", "0", ":", "0", "0", ":", "0", "0">>

\* days-hours:minutes:seconds
DayElapsedText == <<"2", "-", "1", "4", ":", "1", "1", ":", "3", "3">>

PlainTres == <<"billing", "=", "8", ",", "cpu", "=", "8">>

GpuTres == PlainTres \o <<",", "gres/gpu", "=", "4">>

\* the 13 fields sacct prints, in its order
Fields(partition, elapsed, tres, nodelist) ==
    << <<"7">>, <<"ld_stats">>, <<"akapoor">>, <<"kernlab">>, partition,
       elapsed, <<"1">>, <<"8">>, tres, SubmitText, StartText, EndText,
       nodelist >>

Line(fields) == Join(fields, "|") \o <<"\n">>

AttributionLines ==
    {Line(Fields(q, ElapsedText, PlainTres, nl)) :
        q \in Partitions, nl \in NodeListTexts}

GoodFields == Fields(<<"compute">>, ElapsedText, GpuTres, <<"nodeA">>)

PreemptFields ==
    Fields(<<"preempt">>, ElapsedText, PlainTres,
           <<"nodeA", ",", "nodeB">>)

HeaderLine ==
    Line(<< <<"JobID">>, <<"JobName">>, <<"User">>, <<"Account">>,
            <<"Partition">>, <<"Elapsed">>, <<"NNodes">>, <<"NCPUS">>,
            <<"AllocTRES">>, <<"Submit">>, <<"Start">>, <<"End">>,
            <<"NodeList">> >>)

BatchLines ==
    {Line(GoodFields), Line(PreemptFields), HeaderLine,
     \* padded with blanks
     Line([k \in 1..13 |-> <<" ">> \o GoodFields[k] \o <<" ">>]),
     \* a job that ran for no time
     Line(Fields(<<"compute">>, ZeroElapsedText, PlainTres, <<"nodeA">>)),
     \* a 14th field
     Line(GoodFields \o << <<"nodeB">> >>),
     \* an empty resource list, and a 14th field
     Line([GoodFields EXCEPT ![9] = <<>>] \o << <<"nodeB">> >>),
     \* a cpu count that is no number
     Line([GoodFields EXCEPT ![8] = <<"x">>])}
    \* fewer fields
    \cup {Line(SubSeq(GoodFields, 1, k)) : k \in {5, 12}}
    \* an empty account
    \cup {Line([GoodFields EXCEPT ![4] = <<>>])}
    \* a run of days, on GPUs
    \cup {Line(Fields(<<"compute">>, DayElapsedText, GpuTres, <<"nodeA">>))}
    \* fewer fields, and no time run
    \cup {Line(SubSeq(Fields(<<"compute">>, ZeroElapsedText, PlainTres,
                             <<"nodeA">>), 1, 7))}

BatchSnapshot ==
    << <<"nodeA", ",", "compute">>, <<"nodeB", ",", "kern">> >>

\* one job against every snapshot
InitAttribution ==
    /\ \E snapshot \in Snapshots :
           node_partitions = NodePartitionsInit(snapshot)
    /\ \E line \in AttributionLines : stdin = <<line>>
    /\ noheader = FALSE

\* batches of well- and ill-formed lines against one snapshot
InitBatch ==
    /\ node_partitions = NodePartitionsInit(BatchSnapshot)
    /\ stdin \in SeqsUpTo(BatchLines, MaxLines)
    /\ noheader \in BOOLEAN

Init ==
    /\ InitAttribution \/ InitBatch
    /\ i = 0
    /\ out = <<>>
    /\ pc = "running"
    /\ exc = "none"
    /\ last = NoJob
    /\ call = NoCall

Next == ProcessLine \/ Finish

Spec == Init /\ [][Next]_vars

(***************************************************************************)
(* Direct calls of the two codecs, on every short text over their          *)
(* alphabets: pieces from a small set, joined by the separators.           *)
(***************************************************************************)
MaxElapsedSeps == 4

MaxTresSeps == 3

RECURSIVE Weave(_, _)
\* pieces[1] seps[1] pieces[2] ... seps[n] pieces[n + 1]
Weave(pieces, seps) ==
    IF seps = <<>> THEN pieces[1]
    ELSE pieces[1] \o <<seps[1]>> \o Weave(Tail(pieces), Tail(seps))

Texts(pieceSet, sepSet, n) ==
    UNION {{Weave(ps, ss) : ps \in [1..(k + 1) -> pieceSet],
                            ss \in [1..k -> sepSet]} : k \in 0..n}

ElapsedInputs ==
    Texts({<<>>, <<"1">>, <<"6", "1">>, <<"x">>}, {":", "-"}, MaxElapsedSeps)

TresInputs ==
    Texts({<<>>, <<"gres/gpu">>, <<"cpu">>, <<"4">>, <<"x">>}, {"=", ","},
          MaxTresSeps)

InitCalls ==
    /\ node_partitions = <<>>
    /\ stdin = <<>>
    /\ i = 0
    /\ out = <<>>
    /\ pc = "done"
    /\ exc = "none"
    /\ noheader = FALSE
    /\ last = NoJob
    /\ \/ \E e \in ElapsedInputs :
              call = [fn |-> "parse_elapsed_to_seconds", arg |-> e,
                      ret |-> Raise("pending")]
       \/ \E t \in TresInputs :
              call = [fn |-> "calculate_gpus_from_tres", arg |-> t,
                      ret |-> Raise("pending")]

CallParseElapsed ==
    /\ call.fn = "parse_elapsed_to_seconds"
    /\ call.ret.err = "pending"
    /\ call' = [call EXCEPT !.ret = parse_elapsed_to_seconds(call.arg)]
    /\ UNCHANGED <<node_partitions, stdin, i, out, pc, exc, noheader, last>>

CallGpusFromTres ==
    /\ call.fn = "calculate_gpus_from_tres"
    /\ call.ret.err = "pending"
    /\ call' = [call EXCEPT !.ret = calculate_gpus_from_tres(call.arg)]
    /\ UNCHANGED <<node_partitions, stdin, i, out, pc, exc, noheader, last>>

NextCalls == CallParseElapsed \/ CallGpusFromTres

SpecCalls == InitCalls /\ [][NextCalls]_vars

(***************************************************************************)
(* The codecs' contracts.                                                  *)
(***************************************************************************)
\* a non-empty run of digits
IsNumber(s) == Len(s) > 0 /\ \A k \in 1..Len(s) : s[k] \in Digits

Returned(fn) == call.fn = fn /\ call.ret.err # "pending"

\* the day count before the first hyphen (none: no day count) and what
\* follows it
DayPart(e) ==
    LET dashes == {k \in 1..Len(e) : e[k] = "-"}
    IN  IF dashes = {} THEN <<"0">> ELSE SubSeq(e, 1, SetMin(dashes) - 1)

ClockPart(e) ==
    LET dashes == {k \in 1..Len(e) : e[k] = "-"}
    IN  IF dashes = {} THEN e ELSE SubSeq(e, SetMin(dashes) + 1, Len(e))

\* H:M:S or D-H:M:S, every field a number
IsElapsedForm(e) ==
    /\ IsNumber(DayPart(e))
    /\ Len(Split(ClockPart(e), ":")) = 3
    /\ \A k \in 1..3 : IsNumber(Split(ClockPart(e), ":")[k])

ElapsedSeconds(e) ==
    LET f == Split(ClockPart(e), ":")
    IN  DecVal(DayPart(e)) * 86400 + DecVal(f[1]) * 3600
        + DecVal(f[2]) * 60 + DecVal(f[3])

\* C9: parse_elapsed_to_seconds returns D*86400 + H*3600 + M*60 + S for every
\* text of the form H:M:S or D-H:M:S with non-negative integer fields, whatever
\* the size of M and S, and fails for every text that, split at the hyphen
\* into the day count and the rest, has not exactly three colon-separated
\* integer fields in the rest.
C9_ElapsedContract ==
    Returned("parse_elapsed_to_seconds") =>
        IF IsElapsedForm(call.arg)
        THEN call.ret = Ok(ElapsedSeconds(call.arg))
        ELSE call.ret.err # "none"

\* The half of C9 the program does meet: a text of the form is parsed to its
\* value.
ElapsedFormParsed ==
    Returned("parse_elapsed_to_seconds") /\ IsElapsedForm(call.arg) =>
        call.ret = Ok(ElapsedSeconds(call.arg))

\* The tokens of a resource list, and the first that holds "gres/gpu=".
TresTokens(t) == Split(t, ",")

GpuTokens(t) ==
    {k \in 1..Len(TresTokens(t)) : Contains(TresTokens(t)[k], GPU_KEY)}

\* what follows a token's first "="
TokenValue(tok) ==
    LET eqs == {k \in 1..Len(tok) : tok[k] = "="}
    IN  SubSeq(tok, SetMin(eqs) + 1, Len(tok))

\* C10: calculate_gpus_from_tres returns 0 when no comma-separated token holds
\* the gres/gpu key; otherwise it returns the integer after the "=" of the
\* first token that holds the key, and raises, rather than returning 0, when
\* that token's value is no integer.
C10_GpusContract ==
    Returned("calculate_gpus_from_tres") =>
        IF GpuTokens(call.arg) = {}
        THEN call.ret = Ok(0)
        ELSE LET v == TokenValue(TresTokens(call.arg)[SetMin(GpuTokens(call.arg))])
             IN  IF PyInt(v).err = "none"
                 THEN call.ret = PyInt(v)
                 ELSE call.ret.err # "none"

(***************************************************************************)
(* Words for the claims about lines and rows.                              *)
(***************************************************************************)
\* the line's first field is the scheduler's JobID token
IsHeaderLine(line) == Len(line) > 0 /\ line[1] = "JobID"

\* the line's fields as the pipes delimit them, trimmed
RawFields(line) ==
    LET raw == Split(line, "|") IN [k \in 1..Len(raw) |-> Strip(raw[k])]

\* the fields that are left when the empty ones are dropped
FilledFields(line) == StrippedNonEmpty(Split(line, "|"))

HasThirteenFields(line) ==
    /\ Len(RawFields(line)) = 13
    /\ \A k \in 1..13 : RawFields(line)[k] # <<>>

\* a line of the schema whose every field parses
IsWellFormed(line) ==
    LET f == RawFields(line)
    IN  /\ ~IsHeaderLine(line)
        /\ HasThirteenFields(line)
        /\ IsElapsedForm(f[6])
        /\ IsNumber(f[8])
        /\ calculate_gpus_from_tres(f[9]).err = "none"
        /\ fromisoformat(f[10]).err = "none"
        /\ fromisoformat(f[11]).err = "none"

IsZeroDuration(line) ==
    /\ ~IsHeaderLine(line)
    /\ Len(FilledFields(line)) >= 6
    /\ IsElapsedForm(FilledFields(line)[6])
    /\ ElapsedSeconds(FilledFields(line)[6]) = 0

IsJobLine(line) == IsWellFormed(line) /\ ~IsZeroDuration(line)

JobRows == {r \in 1..Len(out) : out[r].kind = "job"}

NodesOf(v) == StrippedNonEmpty(Split(v.nodelist, ","))

\* the places of a node list whose node has an entry in the index
Indexed(nodes) == {k \in 1..Len(nodes) : nodes[k] \in DOMAIN node_partitions}

OpenIndexed(nodes) ==
    {k \in Indexed(nodes) :
        InList(node_partitions[nodes[k]], OPEN_USE_PARTITIONS)}

IsOne(w) == FracEq(w, Frac(1, 1))

IsHalf(w) == FracEq(w, Frac(1, 2))

IsZero(w) == w.num = 0

(***************************************************************************)
(* Attribution.                                                            *)
(***************************************************************************)
\* C1: for a job whose partition is preempt, the open-use weight is the number
\* of its nodes with an open-use entry in the index over the number of its
\* nodes with any entry, and the condo weight is the remainder: a node with no
\* entry counts on neither side.
C1_PreemptWeightsOverIndexedNodes ==
    \A r \in JobRows :
        LET v == out[r].v
            known == Cardinality(Indexed(NodesOf(v)))
            open == Cardinality(OpenIndexed(NodesOf(v)))
        IN  v.partition = <<"preempt">> /\ known > 0 =>
                /\ FracEq(v.openuse_weight, Frac(open, known))
                /\ FracEq(v.condo_weight, Frac(known - open, known))

\* C2: a preempt job with a non-empty node list of which no node is in the
\* index gets the weights 0.0 and 0.0, and its record is still written.
C2_UnknownNodesWeighZero ==
    i >= 1 /\ IsJobLine(stdin[i])
        /\ RawFields(stdin[i])[5] = <<"preempt">>
        /\ StrippedNonEmpty(Split(RawFields(stdin[i])[13], ",")) # <<>>
        /\ Indexed(StrippedNonEmpty(Split(RawFields(stdin[i])[13], ","))) = {}
    =>  /\ pc # "raised"
        /\ Len(out) >= 1
        /\ out[Len(out)].kind = "job"
        /\ IsZero(out[Len(out)].v.openuse_weight)
        /\ IsZero(out[Len(out)].v.condo_weight)

\* C3: a job whose partition is not preempt has one category, OPEN_USE if the
\* partition is an open-use one and CONDO otherwise, with weight 1.0 for it
\* and 0 for the other, whatever its nodes and the index are.
C3_PartitionAloneDecides ==
    \A r \in JobRows :
        LET v == out[r].v
        IN  v.partition # <<"preempt">> =>
                IF InList(v.partition, OPEN_USE_PARTITIONS)
                THEN /\ v.category = JobCategory.OPEN
                     /\ IsOne(v.openuse_weight) /\ IsZero(v.condo_weight)
                ELSE /\ v.category = JobCategory.CONDO
                     /\ IsOne(v.condo_weight) /\ IsZero(v.openuse_weight)

\* The part of C3 about the category alone.
CategoryFromPartitionAlone ==
    \A r \in JobRows :
        LET v == out[r].v
        IN  v.partition # <<"preempt">> =>
                v.category = IF InList(v.partition, OPEN_USE_PARTITIONS)
                             THEN JobCategory.OPEN ELSE JobCategory.CONDO

\* C4: the two weights of every written job sum to exactly 1, or are both 0:
\* never a sum strictly between 0 and 1, never one above 1.
C4_WeightsSumToOne ==
    \A r \in JobRows :
        LET v == out[r].v
        IN  \/ FracSumIs(v.openuse_weight, v.condo_weight, 1)
            \/ IsZero(v.openuse_weight) /\ IsZero(v.condo_weight)

\* a job split between the two sides, and one with no node at all
C4_Witness ==
    /\ \E r \in JobRows : /\ out[r].v.openuse_weight.num > 0
                          /\ out[r].v.condo_weight.num > 0
                          /\ Len(NodesOf(out[r].v)) = MaxNodes
    /\ pc = "done"

(***************************************************************************)
(* Rows and batches.                                                       *)
(***************************************************************************)
\* the line is a preempt job on two nodes, the first in an open-use pool of
\* index np and the second in a private one
IsSplitJob(line, np) ==
    /\ IsJobLine(line)
    /\ RawFields(line)[5] = <<"preempt">>
    /\ LET nodes == StrippedNonEmpty(Split(RawFields(line)[13], ","))
       IN  /\ Len(nodes) = 2
           /\ \A k \in 1..2 : nodes[k] \in DOMAIN np
           /\ InList(np[nodes[1]], OPEN_USE_PARTITIONS)
           /\ ~InList(np[nodes[2]], OPEN_USE_PARTITIONS)
           /\ np[nodes[2]] # <<"preempt">>

SplitJobConsumed == i >= 1 /\ IsSplitJob(stdin[i], node_partitions)

\* the rows the step from this state to the next appends
NewRows == SubSeq(out', Len(out) + 1, Len(out'))

NewJobRows == {r \in 1..Len(NewRows) : NewRows[r].kind = "job"}

\* C5: one row is written per category of the job, each with the category's
\* label and weight: the preempt job on [n1, n2], n1 in an open-use pool and n2
\* in a private one, yields two rows, OPEN_USE with 0.5 and CONDO with 0.5.
C5_RowPerCategory ==
    SplitJobConsumed /\ i = 1 /\ pc # "raised" =>
        /\ Cardinality(JobRows) = 2
        /\ \E r \in JobRows : /\ out[r].v.category = JobCategory.OPEN
                              /\ IsHalf(out[r].v.openuse_weight)
        /\ \E r \in JobRows : /\ out[r].v.category = JobCategory.CONDO
                              /\ IsHalf(out[r].v.condo_weight)

\* C5 as amended: a line yields at most one row, never more; a job line
\* yields exactly one, which carries the job's one category label and both
\* weights as its columns, 0.5 and 0.5 for the job split over an open-use and
\* a private node.
C5_OneRowPerJob ==
    [][i' = i + 1 =>
          /\ Cardinality(NewJobRows) <= 1
          /\ IsJobLine(stdin[i']) =>
                 /\ Cardinality(NewJobRows) = 1
                 /\ NewRows[Len(NewRows)].v = last'.a
                 /\ last'.a.category = categorize_job(RawFields(stdin[i'])[5])
          /\ IsSplitJob(stdin[i'], node_partitions) =>
                 /\ IsHalf(NewRows[Len(NewRows)].v.openuse_weight)
                 /\ IsHalf(NewRows[Len(NewRows)].v.condo_weight)]_vars

C5_Witness ==
    /\ SplitJobConsumed
    /\ pc = "done"
    /\ Cardinality(JobRows) = 1
    /\ IsHalf(out[Len(out)].v.openuse_weight)
    /\ IsHalf(out[Len(out)].v.condo_weight)

\* C6: a header line and a line whose elapsed time is 0 are skipped, not
\* errors: they write no row and raise nothing, the first line of the input
\* included, and every job line after them is still written.
C6_SkipsAreNotErrors ==
    i >= 1 /\ (\A k \in 1..i : IsHeaderLine(stdin[k])
                               \/ IsZeroDuration(stdin[k])
                               \/ IsJobLine(stdin[k]))
    =>  /\ pc # "raised"
        /\ Cardinality(JobRows) =
               Cardinality({k \in 1..i : IsJobLine(stdin[k])})

\* C7: a line that is no header and has fewer than 13 fields raises an error
\* that ends the batch: no row is written for it, none for any line after it,
\* and the rows written before it stay as they are.
C7_ShortLineAborts ==
    [][/\ i' = i + 1 /\ ~IsHeaderLine(stdin[i'])
          /\ Len(FilledFields(stdin[i'])) < 13
          => pc' = "raised" /\ exc' # "none" /\ out' = out
       /\ pc = "raised" => pc' = "raised" /\ out' = out /\ i' = i]_vars

\* a short line after a written job and before a line never read
C7_Witness ==
    /\ pc = "raised"
    /\ i = 2 /\ Len(stdin) > 2
    /\ ~IsHeaderLine(stdin[2])
    /\ Len(RawFields(stdin[2])) < 13
    /\ JobRows # {}
    /\ IsJobLine(stdin[3])

\* C8: a line that is no header becomes a job record only when it splits into
\* exactly 13 trimmed, non-empty fields; with any other count, more than 13
\* and an empty field included, it is reported as an error, never parsed with
\* fields ignored or shifted.
C8_ExactlyThirteenOrError ==
    i >= 1 /\ ~IsHeaderLine(stdin[i]) /\ ~HasThirteenFields(stdin[i])
    =>  pc = "raised" /\ last.set = {}

(***************************************************************************)
(* Derived metrics.                                                        *)
(***************************************************************************)
\* hours * 3600 as a whole number of seconds, when it is one
IsSeconds(hours, n) ==
    /\ 3600 % hours.den = 0
    /\ hours.num * (3600 \div hours.den) = n

\* C11: in every written job record, gpus is what calculate_gpus_from_tres
\* gives for the record's tres, and cpu_hours and gpu_hours are cpus and gpus
\* times the seconds parse_elapsed_to_seconds gives for the record's elapsed,
\* over 3600 (as exact fractions); a count of 0 gives 0 hours.
C11_ComputeHours ==
    \A r \in JobRows :
        LET v == out[r].v
            seconds == parse_elapsed_to_seconds(v.elapsed)
            gpus == calculate_gpus_from_tres(v.tres)
        IN  /\ seconds.err = "none"
            /\ gpus.err = "none"
            /\ v.gpus = gpus.val
            /\ IsSeconds(v.cpu_hours, v.cpus * seconds.val)
            /\ IsSeconds(v.gpu_hours, v.gpus * seconds.val)
            /\ v.gpus = 0 => v.gpu_hours.num = 0

\* a batch with a record of 4 GPUs over 2-14:11:33 (223893 seconds) and a
\* record of no GPU
C11_Witness ==
    /\ \E r \in JobRows :
           /\ out[r].v.elapsed = DayElapsedText
           /\ out[r].v.cpus = 8
           /\ out[r].v.gpus = 4
           /\ out[r].v.cpu_hours = Frac(8 * 223893, 3600)
           /\ out[r].v.gpu_hours = Frac(4 * 223893, 3600)
    /\ \E r \in JobRows :
           /\ out[r].v.gpus = 0
           /\ out[r].v.cpus = 8
           /\ out[r].v.gpu_hours.num = 0
           /\ out[r].v.cpu_hours.num > 0

(***************************************************************************)
(* The node index and the category label.                                  *)
(***************************************************************************)
\* the partitions other than preempt that a snapshot lists a node under
HomePartitions(snapshot, node) ==
    {Split(snapshot[k], ",")[2] :
        k \in {j \in 1..Len(snapshot) : Split(snapshot[j], ",")[1] = node}}
    \ {<<"preempt">>}

\* C12: the index built from a snapshot leaves the preempt entries out: the
\* lookup of a node never returns preempt, returns one of the node's other
\* partitions when the snapshot lists any, and "" when it lists none.
C12_IndexLeavesOutPreempt ==
    \A snapshot \in Snapshots :
        node_partitions = NodePartitionsInit(snapshot) =>
            \A node \in NodeNames :
                LET found == get_partition(node_partitions, node)
                    home == HomePartitions(snapshot, node)
                IN  /\ found.err = "none"
                    /\ found.val # <<"preempt">>
                    /\ IF home = {} THEN found.val = <<>>
                       ELSE found.val \in home

\* C13: no written record carries the donated label: the category of each is
\* open_use or condo, that of a preempt job included.
C13_NoDonatedLabel ==
    \A r \in JobRows :
        out[r].v.category \in {JobCategory.OPEN, JobCategory.CONDO}

\* C13, as the code has it: the category of every written record is one of
\* open_use, donated and condo, and it is donated exactly when the record's
\* partition is preempt.
C13_DonatedIffPreempt ==
    \A r \in JobRows :
        /\ out[r].v.category \in {"open_use", "donated", "condo"}
        /\ out[r].v.category = "donated"
              <=> out[r].v.partition = <<"preempt">>

\* a written record of a preempt job, labelled donated, its weights split
C13_Witness ==
    \E r \in JobRows :
        /\ out[r].v.partition = <<"preempt">>
        /\ out[r].v.category = "donated"
        /\ IsHalf(out[r].v.openuse_weight)
        /\ IsHalf(out[r].v.condo_weight)

====
